---- MODULE Spec2Model ----
(***************************************************************************)
(* A model of go-htmlutil: the recursive filter / find traversal of        *)
(* internal.go (filterNodes) over an html.Node tree, and the Node handle   *)
(* with its navigation accessors and MatchDepth.                           *)
(***************************************************************************)
EXTENDS Integers, Sequences, FiniteSets, TLC

\* ------------------------------------------------------------------ bounds
NumNodes == 3      \* html.Node values of the tree, numbered 1..NumNodes
MaxFilters == 2    \* longest filter chain handed to filterNodes
MaxDepth == 1      \* largest Depth of the handles the navigation starts from
MaxNav == 3        \* navigation calls made on one handle
MaxNavFilters == 1 \* longest filter chain of a traversal started from a handle

\* ------------------------------------------------------------ html.Node
\* A *html.Node is a number; the nil pointer is 0.
nil == 0
Nodes == 1..NumNodes
NodePtr == Nodes \cup {nil}

Min(S) == CHOOSE x \in S : \A y \in S : x <= y
Max(S) == CHOOSE x \in S : \A y \in S : x >= y

\* Every tree on Nodes rooted at node 1: p[n] is the parent of n, siblings
\* are ordered by number.  Numbers are identities, not document positions
\* (p = <<0,1,1,2>> has document order 1,2,4,3).
ParentArrays == {p \in [Nodes -> NodePtr] : p[1] = nil /\ \A n \in Nodes \ {1} : p[n] \in 1..(n - 1)}

Kids(p, n) == {c \in Nodes : p[c] = n}

\* The five relations of html.Node the package reads.
MkTree(p) ==
  [Parent      |-> p,
   FirstChild  |-> [n \in Nodes |-> IF Kids(p, n) = {} THEN nil ELSE Min(Kids(p, n))],
   LastChild   |-> [n \in Nodes |-> IF Kids(p, n) = {} THEN nil ELSE Max(Kids(p, n))],
   PrevSibling |-> [n \in Nodes |->
                      LET S == {c \in Kids(p, p[n]) : c < n}
                      IN  IF p[n] = nil \/ S = {} THEN nil ELSE Max(S)],
   NextSibling |-> [n \in Nodes |->
                      LET S == {c \in Kids(p, p[n]) : c > n}
                      IN  IF p[n] = nil \/ S = {} THEN nil ELSE Min(S)]]

Trees == {MkTree(p) : p \in ParentArrays}

\* ------------------------------------------------------------- filters
\* A func(node *html.Node) bool is the set of nodes it returns true on; a
\* nil func value is NilFilter.
NilFilter == [isNil |-> TRUE, sat |-> {}]
Filter(S) == [isNil |-> FALSE, sat |-> S]
FilterVals == {NilFilter} \cup {Filter(S) : S \in SUBSET Nodes}
Chains == UNION {[1..k -> FilterVals] : k \in 0..MaxFilters}

\* filterNodesConfig
Configs == [Node : NodePtr, Filters : Chains, Find : BOOLEAN]

\* Mutant of copyValidFilters: the nil filters are kept.
copyAllFilters(input) == input

\* copyValidFilters: the non-nil filters of input, in order.
RECURSIVE copyValidFilters(_)
copyValidFilters(input) ==
  IF input = <<>> THEN <<>>
  ELSE IF ~input[1].isNil THEN <<input[1]>> \o copyValidFilters(Tail(input))
  ELSE copyValidFilters(Tail(input))

\* The traversal threads st = [result, log]: result is the captured slice,
\* log records each predicate call and each append as it happens.
EvalEv(f, n, st) == [op |-> "eval", node |-> n, sat |-> f.sat, len |-> Len(st.result)]
AppendEv(n, st)  == [op |-> "append", node |-> n, sat |-> {}, len |-> Len(st.result)]

\* Lines 86-88: delete result[j].
RemoveAt(result, j) == SubSeq(result, 1, j - 1) \o SubSeq(result, j + 1, Len(result))

\* Lines 81-90: the inner loop, j from finish (1-based here) to the end.
RECURSIVE dedupJ(_, _, _)
dedupJ(result, i, j) ==
  IF j > Len(result) THEN result
  ELSE IF result[i] # result[j] THEN dedupJ(result, i, j + 1)
  ELSE dedupJ(RemoveAt(result, j), i, j)

\* Lines 80-91: the outer loop, i over the frame's own chain results
\* result[start:finish] (0-based, half open), i.e. start+1..finish here.
RECURSIVE dedupI(_, _, _)
dedupI(result, i, finish) ==
  IF i > finish THEN result
  ELSE dedupI(dedupJ(result, i, finish + 1), i + 1, finish)

\* Mutant of dedup: nothing is removed.
dedupNone(result, start, finish) == result

\* Mutant of dedup: i starts one too far, at start + 1 (0-based).
dedupSkipFirst(result, start, finish) == dedupI(result, start + 2, finish)

dedup(result, start, finish) == dedupI(result, start + 1, finish)

\* Mutant of stopFind: || for &&.
stopFindOr(cfg, st) == cfg.Find \/ Len(st.result) # 0

\* Mutant of stopFind: the walk never stops early.
stopFindNever(cfg, st) == FALSE

\* Line 37: find-first mode and a result is there already.
stopFind(cfg, st) == cfg.Find /\ Len(st.result) # 0

\* Mutant of rejects: the ! of line 56 is missing.
rejectsInverted(filter, node) == ~filter.isNil /\ node \in filter.sat

\* Line 56: the filter taken is not nil and returns false on the node.
rejects(filter, node) == ~filter.isNil /\ node \notin filter.sat

\* Lines 51-54: pop filters until a non-nil one is taken or none is left.
RECURSIVE popFilter(_, _)
popFilter(filter, filters) ==
  IF filter.isNil /\ Len(filters) # 0 THEN popFilter(filters[1], Tail(filters))
  ELSE [filter |-> filter, Filters |-> filters]

RECURSIVE fn(_, _, _)
RECURSIVE advance(_, _, _)
RECURSIVE advanceLoop(_, _, _, _)
RECURSIVE descendLoop(_, _, _, _, _, _)

\* Mutant of advance: the remaining chain is resumed on the node itself too.
advanceSelf(t, cfg, st) ==
  LET p    == popFilter(NilFilter, cfg.Filters)
      cfg1 == [cfg EXCEPT !.Filters = p.Filters]
      st1  == IF p.filter.isNil THEN st
              ELSE [st EXCEPT !.log = Append(@, EvalEv(p.filter, cfg.Node, st))]
  IN  IF rejects(p.filter, cfg.Node) THEN st1
      ELSE IF Len(cfg1.Filters) = 0 THEN fn(t, cfg1, st1)
      ELSE advanceLoop(t, cfg1, t.FirstChild[cfg.Node], fn(t, cfg1, st1))

\* Mutant of fn: the nil check comes after the empty-chain append.
fnNilLate(t, cfg, st) ==
  IF stopFind(cfg, st) THEN st
  ELSE IF Len(cfg.Filters) = 0
    THEN [result |-> Append(st.result, cfg.Node),
          log    |-> Append(st.log, AppendEv(cfg.Node, st))]
  ELSE IF cfg.Node = nil THEN st
  ELSE LET start  == Len(st.result)
           st1    == advance(t, cfg, st)
           finish == Len(st1.result)
       IN  descendLoop(t, cfg, t.FirstChild[cfg.Node], start, finish, st1)

\* Lines 66-70: resume the remaining chain on every child.
advanceLoop(t, cfg, c, st) ==
  IF c = nil THEN st
  ELSE advanceLoop(t, cfg, t.NextSibling[c], fn(t, [cfg EXCEPT !.Node = c], st))

\* Lines 48-71: the chain-advancement step.
advance(t, cfg, st) ==
  LET p    == popFilter(NilFilter, cfg.Filters)
      cfg1 == [cfg EXCEPT !.Filters = p.Filters]
      st1  == IF p.filter.isNil THEN st
              ELSE [st EXCEPT !.log = Append(@, EvalEv(p.filter, cfg.Node, st))]
  IN  IF rejects(p.filter, cfg.Node) THEN st1
      ELSE IF Len(cfg1.Filters) = 0 THEN fn(t, cfg1, st1)
      ELSE advanceLoop(t, cfg1, t.FirstChild[cfg.Node], st1)

\* Lines 75-92: the plain descent with the unconsumed chain, de-duplicating
\* after every child.
descendLoop(t, cfg, c, start, finish, st) ==
  IF c = nil THEN st
  ELSE LET st1 == fn(t, [cfg EXCEPT !.Node = c], st)
       IN  descendLoop(t, cfg, t.NextSibling[c], start, finish,
                       [st1 EXCEPT !.result = dedup(@, start, finish)])

\* Lines 32-93: the recursive closure fn.
fn(t, cfg, st) ==
  IF cfg.Node = nil THEN st
  ELSE IF stopFind(cfg, st) THEN st
  ELSE IF Len(cfg.Filters) = 0
    THEN [result |-> Append(st.result, cfg.Node),
          log    |-> Append(st.log, AppendEv(cfg.Node, st))]
  ELSE LET start  == Len(st.result)
           st1    == advance(t, cfg, st)
           finish == Len(st1.result)
       IN  descendLoop(t, cfg, t.FirstChild[cfg.Node], start, finish, st1)

\* Lines 24-98: filterNodes, returning the result and the log of the run.
filterNodes(t, cfg) ==
  fn(t, [cfg EXCEPT !.Filters = copyValidFilters(cfg.Filters)], [result |-> <<>>, log |-> <<>>])

\* ------------------------------------------------------------ Node handle
\* The *Node back-reference Match: nil, or a Node of which only Depth is read.
NoMatch == [isNil |-> TRUE, Depth |-> 0]
SomeMatch(d) == [isNil |-> FALSE, Depth |-> d]

\* The zero value Node{}.
ZeroNode == [Data |-> nil, Depth |-> 0, Match |-> NoMatch]

\* Mutant of Parent: Depth is decremented only when Data is not nil.
ParentGuarded(t, n) ==
  [Data  |-> IF n.Data # nil THEN t.Parent[n.Data] ELSE n.Data,
   Depth |-> IF n.Data # nil THEN n.Depth - 1 ELSE n.Depth,
   Match |-> n.Match]

Parent(t, n) ==
  [Data  |-> IF n.Data # nil THEN t.Parent[n.Data] ELSE n.Data,
   Depth |-> n.Depth - 1,
   Match |-> n.Match]

FirstChild(t, n) ==
  [Data  |-> IF n.Data # nil THEN t.FirstChild[n.Data] ELSE n.Data,
   Depth |-> n.Depth + 1,
   Match |-> n.Match]

LastChild(t, n) ==
  [Data  |-> IF n.Data # nil THEN t.LastChild[n.Data] ELSE n.Data,
   Depth |-> n.Depth + 1,
   Match |-> n.Match]

PrevSibling(t, n) ==
  [Data  |-> IF n.Data # nil THEN t.PrevSibling[n.Data] ELSE n.Data,
   Depth |-> n.Depth,
   Match |-> n.Match]

NextSibling(t, n) ==
  [Data  |-> IF n.Data # nil THEN t.NextSibling[n.Data] ELSE n.Data,
   Depth |-> n.Depth,
   Match |-> n.Match]

\* Lines 91-93 of Children: append child while child.Data != nil.
RECURSIVE ChildrenLoop(_, _, _)
ChildrenLoop(t, child, children) ==
  IF child.Data = nil THEN children
  ELSE ChildrenLoop(t, NextSibling(t, child), Append(children, child))

Children(t, n) ==
  IF n.Data = nil THEN <<>>
  ELSE ChildrenLoop(t, FirstChild(t, n), <<>>)

\* Mutant of MatchDepth: the operands of the subtraction are swapped.
MatchDepthSwapped(n) ==
  LET d == n.Depth
  IN  IF ~n.Match.isNil THEN n.Match.Depth - d ELSE d

MatchDepth(n) ==
  LET d == n.Depth
  IN  IF ~n.Match.isNil THEN d - n.Match.Depth ELSE d

\* ------------------------------------------------------------------ state
VARIABLES
  tree,      \* the html.Node tree
  config,    \* the filterNodesConfig of the call
  result,    \* what filterNodes returned
  log,       \* the predicate calls and appends of the run, in order
  pc,        \* "start" before the call of filterNodes, "done" after it
  h0,        \* the Node handle the navigation started from
  h,         \* the Node handle after the navigation calls made so far
  nChild,    \* FirstChild / LastChild calls made so far
  nParent,   \* Parent calls made so far
  nSibling,  \* PrevSibling / NextSibling calls made so far
  last,      \* the method called last
  children,  \* what Children returned, when it was called last
  md         \* what MatchDepth returned, when it was called last

trav == <<config, result, log, pc>>
hand == <<h0, h, nChild, nParent, nSibling, last, children, md>>
vars == <<tree, config, result, log, pc, h0, h, nChild, nParent, nSibling, last, children, md>>

NoCall ==
  /\ config = [Node |-> nil, Filters |-> <<>>, Find |-> FALSE]
  /\ result = <<>>
  /\ log = <<>>
  /\ pc = "start"

NoHandle ==
  /\ h = h0
  /\ nChild = 0
  /\ nParent = 0
  /\ nSibling = 0
  /\ last = "none"
  /\ children = <<>>
  /\ md = 0

\* ------------------------------------------------- Spec: one filterNodes call
Init ==
  /\ tree \in Trees
  /\ config \in Configs
  /\ result = <<>>
  /\ log = <<>>
  /\ pc = "start"
  /\ h0 = ZeroNode
  /\ NoHandle

\* filterNodes(config) with Find = false.
FilterAll ==
  /\ pc = "start"
  /\ ~config.Find
  /\ LET r == filterNodes(tree, config)
     IN  /\ result' = r.result
         /\ log' = r.log
  /\ pc' = "done"
  /\ UNCHANGED <<tree, config, hand>>

\* filterNodes(config) with Find = true.
FindFirst ==
  /\ pc = "start"
  /\ config.Find
  /\ LET r == filterNodes(tree, config)
     IN  /\ result' = r.result
         /\ log' = r.log
  /\ pc' = "done"
  /\ UNCHANGED <<tree, config, hand>>

Next == FilterAll \/ FindFirst

Spec == Init /\ [][Next]_vars

\* ---------------------------------------------- SpecNav: calls on a handle
Handles ==
  [Data : NodePtr, Depth : 0..MaxDepth,
   Match : {NoMatch} \cup {SomeMatch(d) : d \in 0..MaxDepth}]

InitNav ==
  /\ tree \in Trees
  /\ h0 \in Handles
  /\ NoHandle
  /\ NoCall

CanNav == pc = "start" /\ nChild + nParent + nSibling < MaxNav

CallParent ==
  /\ CanNav
  /\ h' = Parent(tree, h)
  /\ nParent' = nParent + 1
  /\ last' = "Parent"
  /\ children' = <<>> /\ md' = 0
  /\ UNCHANGED <<tree, trav, h0, nChild, nSibling>>

CallFirstChild ==
  /\ CanNav
  /\ h' = FirstChild(tree, h)
  /\ nChild' = nChild + 1
  /\ last' = "FirstChild"
  /\ children' = <<>> /\ md' = 0
  /\ UNCHANGED <<tree, trav, h0, nParent, nSibling>>

CallLastChild ==
  /\ CanNav
  /\ h' = LastChild(tree, h)
  /\ nChild' = nChild + 1
  /\ last' = "LastChild"
  /\ children' = <<>> /\ md' = 0
  /\ UNCHANGED <<tree, trav, h0, nParent, nSibling>>

CallPrevSibling ==
  /\ CanNav
  /\ h' = PrevSibling(tree, h)
  /\ nSibling' = nSibling + 1
  /\ last' = "PrevSibling"
  /\ children' = <<>> /\ md' = 0
  /\ UNCHANGED <<tree, trav, h0, nChild, nParent>>

CallNextSibling ==
  /\ CanNav
  /\ h' = NextSibling(tree, h)
  /\ nSibling' = nSibling + 1
  /\ last' = "NextSibling"
  /\ children' = <<>> /\ md' = 0
  /\ UNCHANGED <<tree, trav, h0, nChild, nParent>>

CallChildren ==
  /\ pc = "start"
  /\ children' = Children(tree, h)
  /\ last' = "Children"
  /\ md' = 0
  /\ UNCHANGED <<tree, trav, h0, h, nChild, nParent, nSibling>>

CallMatchDepth ==
  /\ pc = "start"
  /\ md' = MatchDepth(h)
  /\ last' = "MatchDepth"
  /\ children' = <<>>
  /\ UNCHANGED <<tree, trav, h0, h, nChild, nParent, nSibling>>

Navigate ==
  \/ CallParent
  \/ CallFirstChild
  \/ CallLastChild
  \/ CallPrevSibling
  \/ CallNextSibling

NextNav == Navigate \/ CallChildren \/ CallMatchDepth

SpecNav == InitNav /\ [][NextNav]_vars

\* ------------------------- SpecAbsent: navigation, then a traversal from h.Data
NavChains == UNION {[1..k -> FilterVals] : k \in 0..MaxNavFilters}

InitAbsent ==
  /\ tree \in Trees
  /\ h0 \in {[ZeroNode EXCEPT !.Data = d] : d \in NodePtr}
  /\ NoHandle
  /\ NoCall

\* filterNodes(filterNodesConfig{Node: h.Data, Filters: filters, Find: find})
FilterNodesAt ==
  /\ pc = "start"
  /\ \E filters \in NavChains, find \in BOOLEAN :
       LET cfg == [Node |-> h.Data, Filters |-> filters, Find |-> find]
           r   == filterNodes(tree, cfg)
       IN  /\ config' = cfg
           /\ result' = r.result
           /\ log' = r.log
  /\ pc' = "done"
  /\ last' = "filterNodes"
  /\ children' = <<>> /\ md' = 0
  /\ UNCHANGED <<tree, h0, h, nChild, nParent, nSibling>>

NextAbsent == Navigate \/ CallChildren \/ FilterNodesAt

SpecAbsent == InitAbsent /\ [][NextAbsent]_vars
\* ------------------------------------------------- reference definitions
\* The nodes reachable from n (n and every descendant) in document order.
RECURSIVE PreOrder(_, _)
RECURSIVE PreOrderFrom(_, _)
PreOrder(t, n) == <<n>> \o PreOrderFrom(t, t.FirstChild[n])
PreOrderFrom(t, c) ==
  IF c = nil THEN <<>> ELSE PreOrder(t, c) \o PreOrderFrom(t, t.NextSibling[c])

\* The proper ancestors of n that lie in the subtree of start (n is in it).
RECURSIVE AncestorsWithin(_, _, _)
AncestorsWithin(t, start, n) ==
  IF n = start \/ t.Parent[n] = nil THEN {}
  ELSE {t.Parent[n]} \cup AncestorsWithin(t, start, t.Parent[n])

\* There are a1, ..., ak = n in the subtree of start, each a proper ancestor
\* of the next, with F[i] true on ai.
RECURSIVE HasChain(_, _, _, _, _)
HasChain(t, start, F, k, n) ==
  /\ n \in F[k].sat
  /\ \/ k = 1
     \/ \E a \in AncestorsWithin(t, start, n) : HasChain(t, start, F, k - 1, a)

ChainMatches(t, start, F) ==
  LET Matches(n) == HasChain(t, start, F, Len(F), n)
  IN  SelectSeq(PreOrder(t, start), Matches)

\* The two recursions of the traversal with nothing removed: the chain
\* advancement at n, then the plain descent into every child.
RECURSIVE Raw(_, _, _)
RECURSIVE RawFrom(_, _, _)
Raw(t, n, F) ==
  IF F = <<>> THEN <<n>>
  ELSE (IF n \notin F[1].sat THEN <<>>
        ELSE IF Len(F) = 1 THEN <<n>>
        ELSE RawFrom(t, t.FirstChild[n], Tail(F)))
       \o RawFrom(t, t.FirstChild[n], F)
RawFrom(t, c, F) ==
  IF c = nil THEN <<>> ELSE Raw(t, c, F) \o RawFrom(t, t.NextSibling[c], F)

\* s with every element's later occurrences removed.
RECURSIVE KeepFirst(_)
KeepFirst(s) ==
  IF s = <<>> THEN <<>>
  ELSE LET r == KeepFirst(SubSeq(s, 1, Len(s) - 1))
           x == s[Len(s)]
       IN  IF \E i \in DOMAIN r : r[i] = x THEN r ELSE Append(r, x)

Range(s) == {s[i] : i \in DOMAIN s}
NoNilFilter(F) == \A i \in DOMAIN F : ~F[i].isNil
OnlyNilFilters(F) == \A i \in DOMAIN F : F[i].isNil
AllDone == pc = "done" /\ ~config.Find
FindDone == pc = "done" /\ config.Find
RawOfCall == Raw(tree, config.Node, copyValidFilters(config.Filters))
AllOfCall == filterNodes(tree, [config EXCEPT !.Find = FALSE])

\* ------------------------------------------------------------------ claims

\* C1: in collect-all mode the sequence filterNodes returns never holds the
\* same node at two different indices.
C1_NoDuplicates ==
  AllDone => \A i, j \in DOMAIN result : i # j => result[i] # result[j]

\* C1 witness: a collect-all call whose two recursions reach a node twice.
C1_Witness ==
  /\ AllDone
  /\ config.Node # nil
  /\ Len(RawOfCall) > Cardinality(Range(RawOfCall))
  /\ Len(result) >= 2

\* C2: find-first returns a result exactly when collect-all on the same
\* inputs is non-empty, and then its result is element 0 of collect-all's.
C2_FindIsHeadOfAll ==
  FindDone =>
    /\ (result # <<>>) <=> (AllOfCall.result # <<>>)
    /\ result # <<>> => result[1] = AllOfCall.result[1]

\* C2 witness: a find-first call that found a node where collect-all finds
\* several.
C2_Witness ==
  /\ FindDone
  /\ result # <<>>
  /\ Len(AllOfCall.result) >= 2

\* C3 as stated: with no filter left after the nil ones are discarded,
\* collect-all from a present start returns all nodes reachable from start,
\* each once, in document order.
C3_EmptyChainReturnsSubtree ==
  (AllDone /\ config.Node # nil /\ OnlyNilFilters(config.Filters))
    => result = PreOrder(tree, config.Node)

\* C3 amended: with no filter left after the nil ones are discarded,
\* collect-all from a present start returns start alone.
C3_EmptyChainReturnsStart ==
  (AllDone /\ config.Node # nil /\ OnlyNilFilters(config.Filters))
    => result = <<config.Node>>

\* C3 witness: such a call, with nil filters discarded, from a node that has
\* children.
C3_Witness ==
  /\ AllDone
  /\ config.Node # nil
  /\ config.Filters # <<>>
  /\ OnlyNilFilters(config.Filters)
  /\ tree.FirstChild[config.Node] # nil
  /\ result = <<config.Node>>

\* C4: for a chain [A, B] every node collect-all returns satisfies B and has
\* an ancestor-or-self in the subtree of start that satisfies A.
C4_TwoFilterChain ==
  (AllDone /\ Len(config.Filters) = 2 /\ NoNilFilter(config.Filters)) =>
    \A i \in DOMAIN result :
      /\ result[i] \in config.Filters[2].sat
      /\ \E a \in {result[i]} \cup AncestorsWithin(tree, config.Node, result[i]) :
           a \in config.Filters[1].sat

\* C4 witness: a [A, B] call that returns a node while another node
\* satisfying B is left out.
C4_Witness ==
  /\ AllDone
  /\ Len(config.Filters) = 2
  /\ NoNilFilter(config.Filters)
  /\ result # <<>>
  /\ \E n \in Range(PreOrder(tree, config.Node)) :
       n \in config.Filters[2].sat /\ n \notin Range(result)

\* C5: in find-first mode every predicate call and every append happens
\* while the result is still empty, so nothing is evaluated or appended after
\* the first append and the result has at most one element.
C5_FindShortCircuits ==
  FindDone =>
    /\ Len(result) <= 1
    /\ \A i \in DOMAIN log : log[i].len = 0

\* C5 witness: a find-first call that found a node and made fewer predicate
\* calls than collect-all makes on the same inputs.
C5_Witness ==
  /\ FindDone
  /\ Len(result) = 1
  /\ Len(log) >= 2
  /\ Len(log) < Len(AllOfCall.log)

\* C6: a step from an absent handle leaves the handle absent, Children
\* returns the empty sequence, and a traversal started from it returns the
\* empty sequence without a predicate call, in both modes.
C6_AbsencePropagates ==
  [][h.Data = nil =>
       /\ h'.Data = nil
       /\ children' = <<>>
       /\ pc' = "done" => (result' = <<>> /\ log' = <<>>)]_vars

\* C6 witness: a traversal with a filter, started from a handle that was
\* absent from the start and stayed so through MaxNav navigation calls.
C6_Witness ==
  /\ h0.Data = nil
  /\ h.Data = nil
  /\ nChild >= 1 /\ nParent >= 1
  /\ nChild + nParent + nSibling = MaxNav
  /\ pc = "done"
  /\ config.Node = nil
  /\ config.Filters # <<>>
  /\ result = <<>>

\* C7 as stated: MatchDepth is Depth minus Match.Depth with a back-reference
\* and 0 without one.
C7_MatchDepthZeroWithoutMatch ==
  last = "MatchDepth" =>
    md = IF ~h.Match.isNil THEN h.Depth - h.Match.Depth ELSE 0

\* C7 amended: MatchDepth is Depth minus Match.Depth with a back-reference
\* and the handle's own Depth without one.
C7_MatchDepthIsDepthWithoutMatch ==
  last = "MatchDepth" =>
    md = IF ~h.Match.isNil THEN h.Depth - h.Match.Depth ELSE h.Depth

\* C7 witness: MatchDepth called on a handle with a back-reference at
\* another depth.
C7_Witness ==
  /\ last = "MatchDepth"
  /\ ~h.Match.isNil
  /\ h.Match.Depth # 0
  /\ h.Depth # h.Match.Depth
  /\ md = h.Depth - h.Match.Depth

\* C8: Depth is the initial Depth plus the FirstChild/LastChild calls minus
\* the Parent calls (sibling moves count for nothing), Match never changes,
\* and FirstChild then Parent gives back the Depth, for present and absent
\* handles alike.
C8_DepthBookkeeping ==
  /\ h.Depth = h0.Depth + nChild - nParent
  /\ h.Match = h0.Match
  /\ Parent(tree, FirstChild(tree, h)).Depth = h.Depth

\* C8 witness: a handle gone absent after child, sibling and parent calls.
C8_Witness ==
  /\ nChild >= 1 /\ nParent >= 1 /\ nSibling >= 1
  /\ last = "Parent"
  /\ h0.Data # nil
  /\ h.Data = nil
  /\ ~h.Match.isNil

\* C9: the per-frame de-duplication gives, in collect-all mode, the sequence
\* of the two recursions run with no de-duplication, with every node's later
\* occurrences removed.
C9_PerFrameIsGlobalDedup ==
  (AllDone /\ config.Node # nil) => result = KeepFirst(RawOfCall)

\* C9 witness: a collect-all call where the recursions reach some node twice
\* and another node once.
C9_Witness ==
  /\ AllDone
  /\ config.Node # nil
  /\ KeepFirst(RawOfCall) # RawOfCall
  /\ Cardinality(Range(RawOfCall)) >= 2
  /\ Len(copyValidFilters(config.Filters)) = 2

\* C10: for a non-empty chain F of non-nil filters collect-all returns, in
\* document order, the nodes n of the subtree of start that end a sequence
\* a1, ..., ak = n of the subtree, each a proper ancestor of the next, with
\* F[i] true on ai.
C10_ChainSemantics ==
  (AllDone /\ config.Node # nil /\ config.Filters # <<>> /\ NoNilFilter(config.Filters))
    => result = ChainMatches(tree, config.Node, config.Filters)

\* C10 witness: a [A, B] call returning a grandchild of the node that
\* satisfied A, which itself satisfies B too and is not returned.
C10_Witness ==
  /\ AllDone
  /\ config.Node # nil
  /\ Len(config.Filters) = 2
  /\ NoNilFilter(config.Filters)
  /\ config.Node \in config.Filters[1].sat \cap config.Filters[2].sat
  /\ config.Node \notin Range(result)
  /\ \E i \in DOMAIN result :
       /\ tree.Parent[result[i]] # nil
       /\ tree.Parent[result[i]] # config.Node
       /\ AncestorsWithin(tree, config.Node, result[i]) \cap config.Filters[1].sat = {config.Node}
====
